---- MODULE Spec2Model ----
(***************************************************************************)
(* The browser handlers of AbletonOSC (abletonosc/browser.py): recursive   *)
(* collection, search, path resolution and find-first loading over the     *)
(* host's tree of browser items.                                           *)
(*                                                                         *)
(* A string is a sequence of one-character strings, so that str.lower(),   *)
(* the "in" substring test, "+" and str.split("/") are modelled by what    *)
(* they compute.  The host catalog is the record b = [items, fault]:       *)
(* items maps a node id to its parent, name, is_loadable and is_folder;    *)
(* fault names the node whose iter_children raises and after how many      *)
(* children it does.  The roots (browser.packs, browser.instruments, ...)  *)
(* are the ids 0, -1, ..., -5.                                             *)
(***************************************************************************)
EXTENDS Integers, Sequences, FiniteSets

VARIABLES browser, op, params, result

vars == <<browser, op, params, result>>

\* ------------------------------------------------------------------ bounds

MaxNodes == 4
MaxDepth == 3
MaxCap == 2
MaxLocNodes == 2

\* ------------------------------------------------------- program constants

DefaultMaxDepth == 10
DefaultMaxResults == 50
FindDepth == 10

\* ----------------------------------------------------------------- strings

Min(a, b) == IF a <= b THEN a ELSE b

LowerChar(c) ==
  CASE c = "A" -> "a"
    [] c = "B" -> "b"
    [] OTHER -> c

\* str.lower()
Lower(s) == [i \in 1..Len(s) |-> LowerChar(s[i])]

\* the Python test  sub in s
Contains(sub, s) ==
  \E i \in 0..(Len(s) - Len(sub)) : SubSeq(s, i + 1, i + Len(sub)) = sub

\* index of the first "/" of s at or after position i, 0 when there is none
RECURSIVE FindSlash(_, _)
FindSlash(s, i) ==
  IF i > Len(s) THEN 0
  ELSE IF s[i] = "/" THEN i
  ELSE FindSlash(s, i + 1)

\* str.split("/")
RECURSIVE Split(_)
Split(s) ==
  LET k == FindSlash(s, 1)
  IN IF k = 0 THEN <<s>>
     ELSE <<SubSeq(s, 1, k - 1)>> \o Split(SubSeq(s, k + 1, Len(s)))

\* ----------------------------------------------------------------- catalog

Packs == 0
Instruments == -1
AudioEffects == -2
MidiEffects == -3
Drums == -4
Sounds == -5

NoFault == [node |-> -9, after |-> 0]

Nodes(b) == DOMAIN b.items

Name(b, n) == b.items[n].name

ChildSet(b, x) == {i \in Nodes(b) : b.items[i].parent = x}

\* the children of x in the order the host supplies them
Children(b, x) ==
  LET S == ChildSet(b, x)
  IN [k \in 1..Cardinality(S) |->
        CHOOSE i \in S : Cardinality({j \in S : j < i}) = k - 1]

\* x.iter_children: the children the iterator yields, and whether asking it
\* for one more raises instead of ending the loop
iter_children(b, x) ==
  LET ch == Children(b, x)
  IN IF b.fault.node = x
     THEN [yielded |-> SubSeq(ch, 1, Min(b.fault.after, Len(ch))), raises |-> TRUE]
     ELSE [yielded |-> ch, raises |-> FALSE]

\* -------------------------------------------------------------- collection

\* path + "/" + item.name if path else item.name
CurrentPath(b, item, path) ==
  IF path # <<>> THEN path \o <<"/">> \o Name(b, item) ELSE Name(b, item)

DepthExhaustedLate(depth) == depth <= 1

\* if depth <= 0: return
DepthExhausted(depth) == depth <= 0

CollectExceptMissing(st) == st

\* except Exception: the fault is logged and swallowed
CollectExcept(st) == [st EXCEPT !.raised = FALSE]

RECURSIVE _collect_loadable_items(_, _, _, _, _), CollectChildren(_, _, _, _, _, _)

\* the for loop over item.iter_children, from its i-th child on; st is the
\* results list so far and whether an exception is propagating.  An entry of
\* results carries the node it was appended for beside the path string.
CollectChildren(b, it, i, current_path, st, depth) ==
  IF i > Len(it.yielded) THEN [st EXCEPT !.raised = it.raises]
  ELSE
    LET child == it.yielded[i]
        r1 == IF b.items[child].is_loadable
              THEN Append(st.results,
                          [path |-> current_path \o <<"/">> \o Name(b, child),
                           node |-> child])
              ELSE st.results
        s2 == IF b.items[child].is_folder
              THEN _collect_loadable_items(b, child, current_path, r1, depth - 1)
              ELSE [results |-> r1, raised |-> FALSE]
    IN IF s2.raised THEN s2
       ELSE CollectChildren(b, it, i + 1, current_path, s2, depth)

_collect_loadable_items(b, item, path, results, depth) ==
  IF DepthExhausted(depth) THEN [results |-> results, raised |-> FALSE]
  ELSE CollectExcept(
         CollectChildren(b, iter_children(b, item), 1,
                         CurrentPath(b, item, path),
                         [results |-> results, raised |-> FALSE], depth))

\* ------------------------------------------------------------ name lookup

\* pack.name == pack_name or pack_name.lower() in pack.name.lower()
NameMatches(name, part) == name = part \/ Contains(Lower(part), Lower(name))

\* the scan  for c in x.iter_children: if <matches>: target = c; break
\* node is 0 when the loop ends without a match; the break leaves the
\* iterator before it can raise
FindByName(b, it, part) ==
  LET hits == {i \in 1..Len(it.yielded) : NameMatches(Name(b, it.yielded[i]), part)}
  IN IF hits # {}
     THEN [raised |-> FALSE,
           node |-> it.yielded[CHOOSE i \in hits : \A j \in hits : i <= j]]
     ELSE [raised |-> it.raises, node |-> 0]

\* --------------------------------------------------------------- handlers

\* what a handler leaves behind: raised (an exception left the handler),
\* value (the tuple returned), loaded (the nodes given to browser.load_item,
\* in order), steps (each completed name scan: candidates, part, selected),
\* entries (the result accumulator, each entry with its node)
Reply(value, loaded, steps, entries) ==
  [raised |-> FALSE, value |-> value, loaded |-> loaded, steps |-> steps,
   entries |-> entries]

Raise(loaded, steps) ==
  [raised |-> TRUE, value |-> <<>>, loaded |-> loaded, steps |-> steps,
   entries |-> <<>>]

Step(it, part, f) == [candidates |-> it.yielded, part |-> part, selected |-> f.node]

browser_list_packs(b) ==
  LET it == iter_children(b, Packs)
  IN IF it.raises THEN Reply(<<>>, <<>>, <<>>, <<>>)
     ELSE Reply([i \in 1..Len(it.yielded) |-> Name(b, it.yielded[i])], <<>>, <<>>, <<>>)

browser_list_pack_contents(b, p) ==
  IF Len(p) < 1 THEN Reply(<<>>, <<>>, <<>>, <<>>)
  ELSE
    LET pack_name == p[1]
        max_depth == IF Len(p) > 1 THEN p[2] ELSE DefaultMaxDepth
        it == iter_children(b, Packs)
        f == FindByName(b, it, pack_name)
    IN IF f.raised THEN Raise(<<>>, <<>>)
       ELSE IF f.node = 0 THEN Reply(<<>>, <<>>, <<Step(it, pack_name, f)>>, <<>>)
       ELSE
         LET r == _collect_loadable_items(b, f.node, <<>>, <<>>, max_depth)
         IN IF r.raised THEN Raise(<<>>, <<Step(it, pack_name, f)>>)
            ELSE Reply([i \in 1..Len(r.results) |-> r.results[i].path], <<>>,
                       <<Step(it, pack_name, f)>>, r.results)

\* ------------------------------------------------------------------ search

MatchesAnyKind(b, child, query) == Contains(query, Lower(Name(b, child)))

\* child.is_loadable and query in child.name.lower()
Matches(b, child, query) ==
  b.items[child].is_loadable /\ Contains(query, Lower(Name(b, child)))

ResultsFullLate(results, max_results) == Len(results) > max_results

\* if len(results) >= max_results: break
ResultsFull(results, max_results) == Len(results) >= max_results

SearchExceptMissing(st) == st

\* except Exception: the fault is logged and swallowed
SearchExcept(st) == [st EXCEPT !.raised = FALSE]

SearchPrepend(results, e) == <<e>> \o results

\* results.append((child.name, pack_name, current_path + "/" + child.name))
SearchAppend(results, e) == Append(results, e)

RECURSIVE _search_item(_, _, _, _, _, _, _, _), SearchChildren(_, _, _, _, _, _, _, _, _)

\* the for loop over item.iter_children, from its i-th child on
SearchChildren(b, it, i, current_path, query, st, max_results, depth, pack_name) ==
  IF i > Len(it.yielded) THEN [st EXCEPT !.raised = it.raises]
  ELSE IF ResultsFull(st.results, max_results) THEN st
  ELSE
    LET child == it.yielded[i]
        r1 == IF Matches(b, child, query)
              THEN SearchAppend(st.results,
                          [name |-> Name(b, child), pack_name |-> pack_name,
                           path |-> current_path \o <<"/">> \o Name(b, child),
                           node |-> child])
              ELSE st.results
        s2 == IF b.items[child].is_folder
              THEN _search_item(b, child, query, r1, max_results, depth - 1,
                                pack_name, current_path)
              ELSE [results |-> r1, raised |-> FALSE]
    IN IF s2.raised THEN s2
       ELSE SearchChildren(b, it, i + 1, current_path, query, s2, max_results,
                           depth, pack_name)

_search_item(b, item, query, results, max_results, depth, pack_name, path) ==
  IF depth <= 0 \/ Len(results) >= max_results
  THEN [results |-> results, raised |-> FALSE]
  ELSE SearchExcept(
         SearchChildren(b, iter_children(b, item), 1, CurrentPath(b, item, path),
                        query, [results |-> results, raised |-> FALSE],
                        max_results, depth, pack_name))

\* self._search_item(pack, query, results, max_results, max_depth, pack.name)
SearchPack(b, pack, query, results, max_results, max_depth) ==
  _search_item(b, pack, query, results, max_results, max_depth, Name(b, pack), <<>>)

\* the loop over browser.packs.iter_children, which no try encloses
RECURSIVE SearchPacks(_, _, _, _, _, _, _)
SearchPacks(b, it, i, query, st, max_results, max_depth) ==
  IF i > Len(it.yielded) THEN [st EXCEPT !.raised = it.raises]
  ELSE IF Len(st.results) >= max_results THEN st
  ELSE
    LET s2 == SearchPack(b, it.yielded[i], query, st.results, max_results, max_depth)
    IN IF s2.raised THEN s2
       ELSE SearchPacks(b, it, i + 1, query, s2, max_results, max_depth)

\* index of the first "|" of s at or after position i, 0 when there is none
RECURSIVE FindBar(_, _)
FindBar(s, i) ==
  IF i > Len(s) THEN 0
  ELSE IF s[i] = "|" THEN i
  ELSE FindBar(s, i + 1)

\* the fields of an output string "name|root_label|path"
NameField(e) == SubSeq(e, 1, FindBar(e, 1) - 1)

PathField(e) == SubSeq(e, FindBar(e, FindBar(e, 1) + 1) + 1, Len(e))

\* "%s|%s|%s" % (item_name, pack_name, path)
Format(e) == e.name \o <<"|">> \o e.pack_name \o <<"|">> \o e.path

browser_search(b, p) ==
  IF Len(p) < 1 THEN Reply(<<>>, <<>>, <<>>, <<>>)
  ELSE
    LET query == Lower(p[1])
        max_results == IF Len(p) > 1 THEN p[2] ELSE DefaultMaxResults
        max_depth == IF Len(p) > 2 THEN p[3] ELSE DefaultMaxDepth
        r == SearchPacks(b, iter_children(b, Packs), 1, query,
                         [results |-> <<>>, raised |-> FALSE], max_results, max_depth)
    IN IF r.raised THEN Raise(<<>>, <<>>)
       ELSE Reply([i \in 1..Len(r.results) |-> Format(r.results[i])], <<>>, <<>>,
                  r.results)

\* --------------------------------------------------------------- load item

\* the walk  for i, part in enumerate(item_path), from its i-th part on; a
\* fault of current_item.iter_children is caught and fails the walk
RECURSIVE Navigate(_, _, _, _, _)
Navigate(b, current_item, item_path, i, steps) ==
  IF i > Len(item_path) THEN [ok |-> TRUE, node |-> current_item, steps |-> steps]
  ELSE
    LET it == iter_children(b, current_item)
        f == FindByName(b, it, item_path[i])
    IN IF f.raised THEN [ok |-> FALSE, node |-> current_item, steps |-> steps]
       ELSE IF f.node = 0
       THEN [ok |-> FALSE, node |-> current_item,
             steps |-> Append(steps, Step(it, item_path[i], f))]
       ELSE Navigate(b, f.node, item_path, i + 1,
                     Append(steps, Step(it, item_path[i], f)))

browser_load_item(b, p) ==
  IF Len(p) < 1 THEN Reply(<<-1>>, <<>>, <<>>, <<>>)
  ELSE
    LET path_parts == Split(p[1])
    IN IF Len(path_parts) < 2 THEN Reply(<<-1>>, <<>>, <<>>, <<>>)
       ELSE
         LET pack_name == path_parts[1]
             item_path == SubSeq(path_parts, 2, Len(path_parts))
             it == iter_children(b, Packs)
             f == FindByName(b, it, pack_name)
         IN IF f.raised THEN Raise(<<>>, <<>>)
            ELSE IF f.node = 0
            THEN Reply(<<-1>>, <<>>, <<Step(it, pack_name, f)>>, <<>>)
            ELSE
              LET w == Navigate(b, f.node, item_path, 1, <<Step(it, pack_name, f)>>)
              IN IF ~w.ok THEN Reply(<<-1>>, <<>>, w.steps, <<>>)
                 ELSE IF b.items[w.node].is_loadable
                 THEN Reply(<<1>>, <<w.node>>, w.steps, <<>>)
                 ELSE Reply(<<-1>>, <<>>, w.steps, <<>>)

\* ---------------------------------------------------------- search and load

\* the Python test  if result:  on a name or None
Truthy(r) == r.found /\ r.name # <<>>

RECURSIVE _find_and_load(_, _, _, _, _), FindChildren(_, _, _, _, _, _)

\* the for loop over item.iter_children, from its i-th child on; a fault of
\* the iterator is caught and the function returns None
FindChildren(b, it, i, query, loaded, depth) ==
  IF i > Len(it.yielded) THEN [found |-> FALSE, name |-> <<>>, loaded |-> loaded]
  ELSE
    LET child == it.yielded[i]
    IN IF Matches(b, child, query)
       THEN [found |-> TRUE, name |-> Name(b, child), loaded |-> Append(loaded, child)]
       ELSE IF b.items[child].is_folder
       THEN LET r == _find_and_load(b, child, query, loaded, depth - 1)
            IN IF Truthy(r) THEN r
               ELSE FindChildren(b, it, i + 1, query, r.loaded, depth)
       ELSE FindChildren(b, it, i + 1, query, loaded, depth)

_find_and_load(b, item, query, loaded, depth) ==
  IF depth <= 0 THEN [found |-> FALSE, name |-> <<>>, loaded |-> loaded]
  ELSE FindChildren(b, iter_children(b, item), 1, query, loaded, depth)

search_locations == <<Instruments, AudioEffects, MidiEffects, Drums, Sounds>>

\* the loop over search_locations, from its i-th location on
RECURSIVE FindInLocations(_, _, _, _)
FindInLocations(b, i, query, loaded) ==
  IF i > Len(search_locations) THEN Reply(<< <<>> >>, loaded, <<>>, <<>>)
  ELSE
    LET r == _find_and_load(b, search_locations[i], query, loaded, FindDepth)
    IN IF Truthy(r) THEN Reply(<<r.name>>, r.loaded, <<>>, <<>>)
       ELSE FindInLocations(b, i + 1, query, r.loaded)

\* the loop over browser.packs.iter_children, which no try encloses
RECURSIVE FindInPacks(_, _, _, _, _)
FindInPacks(b, it, i, query, loaded) ==
  IF i > Len(it.yielded)
  THEN IF it.raises THEN Raise(loaded, <<>>)
       ELSE FindInLocations(b, 1, query, loaded)
  ELSE
    LET r == _find_and_load(b, it.yielded[i], query, loaded, FindDepth)
    IN IF Truthy(r) THEN Reply(<<r.name>>, r.loaded, <<>>, <<>>)
       ELSE FindInPacks(b, it, i + 1, query, r.loaded)

browser_search_and_load(b, p) ==
  IF Len(p) < 1 THEN Reply(<< <<>> >>, <<>>, <<>>, <<>>)
  ELSE FindInPacks(b, iter_children(b, Packs), 1, Lower(p[1]), <<>>)

\* ------------------------------------------------------ standard locations

\* try: names of location.iter_children  except Exception: return ()
ListLocation(b, location) ==
  LET it == iter_children(b, location)
  IN IF it.raises THEN Reply(<<>>, <<>>, <<>>, <<>>)
     ELSE Reply([i \in 1..Len(it.yielded) |-> Name(b, it.yielded[i])], <<>>, <<>>, <<>>)

browser_list_instruments(b) == ListLocation(b, Instruments)

browser_list_audio_effects(b) == ListLocation(b, AudioEffects)

browser_list_midi_effects(b) == ListLocation(b, MidiEffects)

browser_list_drums(b) == ListLocation(b, Drums)

browser_list_sounds(b) == ListLocation(b, Sounds)

\* ------------------------------------------------------------------ system

Idle == [raised |-> FALSE, value |-> <<>>, loaded |-> <<>>, steps |-> <<>>,
         entries |-> <<>>]

Locations == {Instruments, AudioEffects, MidiEffects, Drums, Sounds}

\* the ancestors of node i (itself included) in the parent function par
RECURSIVE Up(_, _)
Up(par, i) == IF i <= 0 THEN {} ELSE {i} \cup Up(par, par[i])

RECURSIVE RootOf(_, _)
RootOf(par, i) == IF par[i] <= 0 THEN par[i] ELSE RootOf(par, par[i])

\* the forests of n nodes under the roots R, numbered in pre-order, the roots
\* taken in the order packs, instruments, ..., sounds
Shapes(n, R) ==
  {par \in [1..n -> R \cup 1..(n - 1)] :
     /\ \A i \in 1..n : par[i] < i
     /\ \A i \in 1..n :
          \/ par[i] \in R /\ (i > 1 => par[i] <= RootOf(par, i - 1))
          \/ i > 1 /\ par[i] \in Up(par, i - 1)}

\* the catalogs of at most N items of the kinds K under the roots R
Catalogs(K, R, N) ==
  UNION {
    UNION {
      {[i \in 1..n |-> [parent |-> par[i], name |-> kind[i].name,
                        is_loadable |-> kind[i].is_loadable,
                        is_folder |-> kind[i].is_folder]] : kind \in [1..n -> K]}
      : par \in Shapes(n, R)}
    : n \in 0..N}

\* the nodes X, each with every number of children its iter_children may
\* yield before it raises
Faults(items, X) ==
  UNION {{[node |-> x, after |-> k] :
            k \in 0..Cardinality({i \in DOMAIN items : items[i].parent = x})}
         : x \in X}

Kinds ==
  { [name |-> <<"A", "b">>, is_loadable |-> TRUE, is_folder |-> FALSE],
    [name |-> <<"b">>, is_loadable |-> TRUE, is_folder |-> TRUE],
    [name |-> <<"a">>, is_loadable |-> FALSE, is_folder |-> TRUE] }

KindsFault ==
  { [name |-> <<"A", "b">>, is_loadable |-> TRUE, is_folder |-> FALSE],
    [name |-> <<"b">>, is_loadable |-> TRUE, is_folder |-> TRUE] }

KindsLoad ==
  { [name |-> <<"A", "b">>, is_loadable |-> FALSE, is_folder |-> TRUE],
    [name |-> <<"a">>, is_loadable |-> TRUE, is_folder |-> FALSE],
    [name |-> <<"a">>, is_loadable |-> TRUE, is_folder |-> TRUE] }

KindsAll ==
  { [name |-> <<>>, is_loadable |-> TRUE, is_folder |-> FALSE],
    [name |-> <<"a">>, is_loadable |-> TRUE, is_folder |-> TRUE],
    [name |-> <<"A", "b">>, is_loadable |-> FALSE, is_folder |-> TRUE] }

PackNames == {<<"b">>, <<"a">>}

DepthArgs == 0..MaxDepth

Queries == {<<"a">>, <<"B">>}

CapArgs == (-1)..MaxCap

ListParams == {<<>>} \cup {<<n>> : n \in PackNames} \cup (PackNames \X DepthArgs)

SearchParams ==
  {<<>>} \cup {<<q>> : q \in Queries} \cup (Queries \X CapArgs)
         \cup (Queries \X CapArgs \X (1..MaxDepth))

FaultListParams == {<<n>> : n \in PackNames} \cup (PackNames \X {2})

FaultSearchParams ==
  {<<q>> : q \in Queries} \cup (Queries \X {1}) \cup (Queries \X {2} \X {2})

LoadPaths ==
  { <<"a">>, <<"a", "/", "a">>, <<"A", "b", "/", "a">>, <<"a", "/", "A", "b">>,
    <<"a", "/", "a", "/", "a">>, <<"a", "/", "b">>, <<"b", "/", "a">>,
    <<"/", "a">> }

LoadParams == {<<>>} \cup {<<path>> : path \in LoadPaths}

FindParams == {<<>>, << <<>> >>, << <<"a">> >>, << <<"B">> >>}

InitWith(C) ==
  /\ browser \in C
  /\ op = "idle"
  /\ params = <<>>
  /\ result = Idle

ListPacks ==
  /\ op = "idle"
  /\ op' = "list_packs"
  /\ params' = <<>>
  /\ result' = browser_list_packs(browser)
  /\ UNCHANGED browser

ListPackContents(P) ==
  /\ op = "idle"
  /\ \E p \in P :
       /\ params' = p
       /\ result' = browser_list_pack_contents(browser, p)
  /\ op' = "list_pack_contents"
  /\ UNCHANGED browser

Search(P) ==
  /\ op = "idle"
  /\ \E p \in P :
       /\ params' = p
       /\ result' = browser_search(browser, p)
  /\ op' = "search"
  /\ UNCHANGED browser

LoadItem ==
  /\ op = "idle"
  /\ \E p \in LoadParams :
       /\ params' = p
       /\ result' = browser_load_item(browser, p)
  /\ op' = "load_item"
  /\ UNCHANGED browser

\* the path the i-th entry of the last reply names
ProducedPath(i) ==
  IF op = "search" THEN PathField(result.value[i]) ELSE result.value[i]

\* the client sends a path it has just been given back to load_item; the
\* entry the path came from is kept beside the reply
LoadProduced ==
  /\ op \in {"list_pack_contents", "search"}
  /\ ~result.raised
  /\ \E i \in 1..Len(result.value) :
       /\ params' = <<ProducedPath(i)>>
       /\ result' = [browser_load_item(browser, <<ProducedPath(i)>>)
                       EXCEPT !.entries = <<result.entries[i]>>]
  /\ op' = "load_item"
  /\ UNCHANGED browser

SearchAndLoad ==
  /\ op = "idle"
  /\ \E p \in FindParams :
       /\ params' = p
       /\ result' = browser_search_and_load(browser, p)
  /\ op' = "search_and_load"
  /\ UNCHANGED browser

ListInstruments ==
  /\ op = "idle"
  /\ op' = "list_instruments"
  /\ params' = <<>>
  /\ result' = browser_list_instruments(browser)
  /\ UNCHANGED browser

ListAudioEffects ==
  /\ op = "idle"
  /\ op' = "list_audio_effects"
  /\ params' = <<>>
  /\ result' = browser_list_audio_effects(browser)
  /\ UNCHANGED browser

ListMidiEffects ==
  /\ op = "idle"
  /\ op' = "list_midi_effects"
  /\ params' = <<>>
  /\ result' = browser_list_midi_effects(browser)
  /\ UNCHANGED browser

ListDrums ==
  /\ op = "idle"
  /\ op' = "list_drums"
  /\ params' = <<>>
  /\ result' = browser_list_drums(browser)
  /\ UNCHANGED browser

ListSounds ==
  /\ op = "idle"
  /\ op' = "list_sounds"
  /\ params' = <<>>
  /\ result' = browser_list_sounds(browser)
  /\ UNCHANGED browser

\* the handler has returned and the server has sent its reply; nothing of the
\* call is kept
Return ==
  /\ op # "idle"
  /\ op' = "idle"
  /\ params' = <<>>
  /\ result' = Idle
  /\ UNCHANGED browser

\* -------------------------------------------------------------- properties

Max(a, b) == IF a >= b THEN a ELSE b

\* the arguments a search call runs with
MaxResultsOf(p) == IF Len(p) > 1 THEN p[2] ELSE DefaultMaxResults

MaxDepthOf(p) == IF Len(p) > 2 THEN p[3] ELSE DefaultMaxDepth

\* the pack a node lies under, and its depth below it (a pack's child is 1)
RECURSIVE PackOf(_, _)
PackOf(b, n) == IF b.items[n].parent <= 0 THEN n ELSE PackOf(b, b.items[n].parent)

RECURSIVE Level(_, _)
Level(b, n) == IF b.items[n].parent <= 0 THEN 0 ELSE 1 + Level(b, b.items[n].parent)

\* the actual maximum depth of the tree below x (no children: 0)
TreeDepth(b, x) ==
  LET below == {n \in Nodes(b) : b.items[n].parent > 0 /\ PackOf(b, n) = x}
  IN IF below = {} THEN 0
     ELSE CHOOSE d \in 1..Cardinality(Nodes(b)) :
            /\ \E n \in below : Level(b, n) = d
            /\ \A n \in below : Level(b, n) <= d

\* a cap no search of this catalog can reach
BigCap(b) == Cardinality(Nodes(b)) + 1

\* C3: search never returns more than max(max_results, 0) entries, counted
\* over all packs together, also for max_results <= 0.
C3_SearchCapped ==
  (op = "search" /\ ~result.raised)
    => Len(result.value) <= Max(MaxResultsOf(params), 0)

\* C3 witness: a search capped at 1 returned one entry although two loadable
\* items in different packs match the query.
C3_Witness ==
  /\ op = "search" /\ Len(params) > 1 /\ params[2] = 1
  /\ Len(result.value) = 1
  /\ \E m, n \in Nodes(browser) :
       /\ PackOf(browser, m) # PackOf(browser, n)
       /\ Level(browser, m) = 1 /\ Level(browser, n) = 1
       /\ Matches(browser, m, Lower(params[1]))
       /\ Matches(browser, n, Lower(params[1]))

\* C7: every entry search returns is the name of a loadable item whose
\* lowercased name contains the lowercased query.
C7_SearchMatchesQuery ==
  (op = "search" /\ ~result.raised /\ Len(params) >= 1)
    => \A i \in 1..Len(result.value) :
         \E n \in Nodes(browser) :
           /\ browser.items[n].is_loadable
           /\ Contains(Lower(params[1]), Lower(Name(browser, n)))
           /\ NameField(result.value[i]) = Name(browser, n)

\* C7 witness: an upper-case query returned an item whose name holds the
\* letter in lower case only.
C7_Witness ==
  /\ op = "search" /\ Len(params) >= 1 /\ params[1] = <<"B">>
  /\ \E i \in 1..Len(result.value) : NameField(result.value[i]) = <<"b">>

\* C9: list_pack_contents with the depth limit equal to the actual depth of the
\* pack's tree returns the same sequence as with any larger limit.
C9_DepthCapNotHit ==
  (/\ op = "list_pack_contents" /\ ~result.raised /\ Len(params) = 2
   /\ Len(result.steps) = 1 /\ result.steps[1].selected # 0
   /\ params[2] = TreeDepth(browser, result.steps[1].selected))
    => \A D \in {params[2] + 1, params[2] + 2, DefaultMaxDepth} :
         browser_list_pack_contents(browser, <<params[1], D>>).value = result.value

\* C9 witness: the limit equals a tree depth of at least 2 and a path of an
\* item at that depth was collected.
C9_Witness ==
  /\ op = "list_pack_contents" /\ Len(params) = 2 /\ params[2] >= 2
  /\ Len(result.steps) = 1 /\ result.steps[1].selected # 0
  /\ params[2] = TreeDepth(browser, result.steps[1].selected)
  /\ \E i \in 1..Len(result.entries) :
       Level(browser, result.entries[i].node) = params[2]

\* C10: search with cap m returns exactly the first min(m, n) entries, in
\* order, of the n entries search returns with a cap too large to be reached.
C10_CapIsPrefix ==
  (op = "search" /\ ~result.raised /\ Len(params) >= 1)
    => LET full == browser_search(browser,
                     <<params[1], BigCap(browser), MaxDepthOf(params)>>)
       IN ~full.raised =>
            result.value =
              SubSeq(full.value, 1, Min(MaxResultsOf(params), Len(full.value)))

\* C10 witness: a cap of 1 cut the result before the entries of a later pack.
C10_Witness ==
  /\ op = "search" /\ Len(params) > 1 /\ params[2] = 1
  /\ Len(result.entries) = 1
  /\ LET full == browser_search(browser,
                   <<params[1], BigCap(browser), MaxDepthOf(params)>>)
     IN \E i \in 1..Len(full.entries) :
          PackOf(browser, full.entries[i].node)
            # PackOf(browser, result.entries[1].node)

\* the nodes on the way from n up to its pack, n included
RECURSIVE Ancestors(_, _)
Ancestors(b, n) ==
  IF b.items[n].parent <= 0 THEN {n} ELSE {n} \cup Ancestors(b, b.items[n].parent)

\* the children of the faulty node that its iterator never yields
CutChildren(b) ==
  LET ch == Children(b, b.fault.node)
  IN {ch[i] : i \in (b.fault.after + 1)..Len(ch)}

\* the catalog in which the faulty node has only the children it yielded, and
\* no iterator fails
Truncated(b) ==
  LET gone == {n \in Nodes(b) : Ancestors(b, n) \cap CutChildren(b) # {}}
  IN [items |-> [n \in Nodes(b) \ gone |-> b.items[n]], fault |-> NoFault]

\* C8: when the iter_children of a pack or of an item below a pack raises after
\* yielding some of its children, list_pack_contents and search return exactly
\* what they return on the catalog in which that node has only those children.
C8_FaultTruncatesSubtree ==
  /\ (op = "list_pack_contents" /\ browser.fault.node >= 1)
       => /\ ~result.raised
          /\ result.value
               = browser_list_pack_contents(Truncated(browser), params).value
  /\ (op = "search" /\ browser.fault.node >= 1)
       => /\ ~result.raised
          /\ result.value = browser_search(Truncated(browser), params).value

\* C8 witness: the iterator of a folder below a pack raised before yielding a
\* loadable child that matches; the search reports an item found before the
\* fault and a later sibling of the folder.
C8_Witness ==
  /\ op = "search" /\ Len(params) = 1
  /\ browser.fault.node >= 1
  /\ Level(browser, browser.fault.node) >= 1
  /\ \E c \in CutChildren(browser) : Matches(browser, c, Lower(params[1]))
  /\ \E i, j \in 1..Len(result.entries) :
       /\ result.entries[i].node = browser.fault.node
       /\ result.entries[j].node > browser.fault.node
       /\ browser.items[result.entries[j].node].parent
            = browser.items[browser.fault.node].parent

\* what the exact-then-contains rule selects among the candidates for a part:
\* a candidate named exactly so if there is one, else the first whose name
\* contains the part case-insensitively, else nothing (0)
ExactThenContains(b, step) ==
  LET c == step.candidates
      exact == {i \in 1..Len(c) : Name(b, c[i]) = step.part}
      cont == {i \in 1..Len(c) : Contains(Lower(step.part), Lower(Name(b, c[i])))}
  IN IF exact # {} THEN step.selected # 0 /\ Name(b, step.selected) = step.part
     ELSE IF cont # {} THEN step.selected = c[CHOOSE i \in cont : \A j \in cont : i <= j]
     ELSE step.selected = 0

\* C1: every name scan of load_item (packs for the root part, the current
\* node's children for each later part) and the pack scan of
\* list_pack_contents selects a candidate named exactly as the part when there
\* is one, and the first containing candidate only when there is none.
C1_ExactMatchPreferred ==
  (op \in {"list_pack_contents", "load_item"})
    => \A i \in 1..Len(result.steps) : ExactThenContains(browser, result.steps[i])

\* C2: every handler ends with its documented output shape, whichever
\* iterator raises: no exception leaves the handler.
C2_AlwaysAnswers ==
  /\ op # "idle" => ~result.raised
  /\ op = "load_item" => result.value \in {<<1>>, <<-1>>}
  /\ op = "search_and_load" => Len(result.value) = 1

\* the nodes _find_and_load may look at below x, in the order it looks at them
RECURSIVE PreOrder(_, _, _), PreOrderFrom(_, _, _, _)
PreOrderFrom(b, ch, i, depth) ==
  IF i > Len(ch) THEN <<>>
  ELSE <<ch[i]>>
         \o (IF b.items[ch[i]].is_folder THEN PreOrder(b, ch[i], depth - 1) ELSE <<>>)
         \o PreOrderFrom(b, ch, i + 1, depth)

PreOrder(b, x, depth) ==
  IF depth <= 0 THEN <<>> ELSE PreOrderFrom(b, iter_children(b, x).yielded, 1, depth)

RECURSIVE Concat(_, _, _)
Concat(b, roots, i) ==
  IF i > Len(roots) THEN <<>>
  ELSE PreOrder(b, roots[i], FindDepth) \o Concat(b, roots, i + 1)

\* the search order of search_and_load: the packs in source order, then the
\* standard locations in their fixed order
SearchOrder(b) ==
  Concat(b, iter_children(b, Packs).yielded, 1) \o Concat(b, search_locations, 1)

\* C4: search_and_load activates at most one node, the first loadable node of
\* its search order whose name contains the query case-insensitively, returns
\* that node's name, and returns ("") only when nothing was activated.
C4_LoadsFirstMatchOnly ==
  (op = "search_and_load" /\ ~result.raised /\ Len(params) >= 1)
    => LET order == SearchOrder(browser)
           hits == {i \in 1..Len(order) : Matches(browser, order[i], Lower(params[1]))}
       IN /\ Len(result.loaded) <= 1
          /\ hits = {} => result.loaded = <<>> /\ result.value = << <<>> >>
          /\ hits # {} =>
               LET first == order[CHOOSE i \in hits : \A j \in hits : i <= j]
               IN /\ result.loaded = <<first>>
                  /\ result.value = <<Name(browser, first)>>
          /\ result.value = << <<>> >> => result.loaded = <<>>

\* whether every part of the path of a load_item call was resolved
AllResolved ==
  /\ Len(params) >= 1
  /\ Len(Split(params[1])) >= 2
  /\ Len(result.steps) = Len(Split(params[1]))
  /\ \A i \in 1..Len(result.steps) : result.steps[i].selected # 0

ResolvedNode == result.steps[Len(result.steps)].selected

\* C5: load_item returns (1) exactly when every part resolves and the resolved
\* node is loadable, and then activates that node once; in every other case it
\* returns (-1) and activates nothing.
C5_LoadItemOutcome ==
  (op = "load_item")
    => /\ ~result.raised
       /\ result.value = <<1>>
            <=> (AllResolved /\ browser.items[ResolvedNode].is_loadable)
       /\ result.value = <<1>> => result.loaded = <<ResolvedNode>>
       /\ result.value # <<1>> => result.value = <<-1>> /\ result.loaded = <<>>

\* C6: every path list_pack_contents returns, and the path field of every
\* entry search returns, when passed to load_item on the same catalog makes it
\* return (1) and activate the very node the path was produced for.
C6_PathRoundTrip ==
  (op = "load_item" /\ Len(result.entries) = 1)
    => /\ ~result.raised
       /\ result.value = <<1>>
       /\ result.loaded = <<result.entries[1].node>>

\* every handler, over packs and standard locations, any one fault
Init ==
  InitWith(UNION {{[items |-> items, fault |-> fault] :
                     fault \in {NoFault} \cup
                               Faults(items, DOMAIN items \cup Locations \cup {Packs})}
                  : items \in Catalogs(KindsAll, Locations \cup {Packs}, MaxLocNodes)})

Next ==
  \/ ListPacks
  \/ ListPackContents({<<>>} \cup {<<n>> : n \in PackNames})
  \/ Search({<<>>} \cup {<<q>> : q \in Queries})
  \/ LoadItem
  \/ SearchAndLoad
  \/ ListInstruments
  \/ ListAudioEffects
  \/ ListMidiEffects
  \/ ListDrums
  \/ ListSounds
  \/ Return

Spec == Init /\ [][Next]_vars

\* list_pack_contents and search over packs whose iterators do not fail
InitQuery ==
  InitWith({[items |-> items, fault |-> NoFault] :
              items \in Catalogs(Kinds, {Packs}, MaxNodes)})

NextQuery == ListPackContents(ListParams) \/ Search(SearchParams) \/ Return

SpecQuery == InitQuery /\ [][NextQuery]_vars

\* list_pack_contents and search with one pack or item whose iter_children
\* raises
InitFault ==
  InitWith(UNION {{[items |-> items, fault |-> fault] :
                     fault \in Faults(items, DOMAIN items)}
                  : items \in Catalogs(KindsFault, {Packs}, MaxNodes)})

NextFault ==
  ListPackContents(FaultListParams) \/ Search(FaultSearchParams) \/ Return

SpecFault == InitFault /\ [][NextFault]_vars

\* paths produced and paths loaded, over packs, the pack list itself may fail
InitLoad ==
  InitWith(UNION {{[items |-> items, fault |-> fault] :
                     fault \in {NoFault} \cup Faults(items, DOMAIN items \cup {Packs})}
                  : items \in Catalogs(KindsLoad, {Packs}, MaxNodes)})

NextLoad ==
  \/ ListPackContents({<<n>> : n \in PackNames})
  \/ Search({<<q>> : q \in Queries})
  \/ LoadItem
  \/ Return

SpecLoad == InitLoad /\ [][NextLoad]_vars

UniqueSiblingNames(items) ==
  \A m, n \in DOMAIN items :
    (m # n /\ items[m].parent = items[n].parent) => items[m].name # items[n].name

\* paths produced and sent back, over packs in which no two siblings (and no
\* two packs) share a name
InitPaths ==
  InitWith({[items |-> items, fault |-> NoFault] :
              items \in {c \in Catalogs(KindsLoad, {Packs}, MaxNodes) :
                           UniqueSiblingNames(c)}})

NextPaths ==
  \/ ListPackContents(ListParams)
  \/ Search({<<q>> : q \in Queries} \cup (Queries \X {1}))
  \/ LoadProduced
  \/ Return

SpecPaths == InitPaths /\ [][NextPaths]_vars
====
